---- MODULE Spec2Model ----
(***************************************************************************)
(* Model of the course question-answering service (src/main.ts and         *)
(* src/unnamed/part_000).  The sources hold four successive programs of    *)
(* the same service; the variable `version' says which one is deployed:    *)
(*   "v1"  src/main.ts lines   1-262  (deterministic due extractor + model)*)
(*   "v2"  src/main.ts lines 264-517  (redirect + model)                   *)
(*   "v3"  src/main.ts lines 519-820  (redirect + deterministic + model)   *)
(*   "v4"  src/unnamed/part_000       (redirect + model, plain responses)  *)
(* Text is modelled as TLA+ strings, character by character; every regular *)
(* expression of the source is translated into position-set combinators.   *)
(***************************************************************************)
EXTENDS Integers, Sequences, FiniteSets, TLC

(* ----------------------------- characters ----------------------------- *)

\* s.slice(a - 1, b), 1-based and inclusive
Sub(s, a, b) == IF a > b THEN "" ELSE SubSeq(s, a, b)

Ch(s, i) == SubSeq(s, i, i)

LOWER == "abcdefghijklmnopqrstuvwxyz"
UPPER == "ABCDEFGHIJKLMNOPQRSTUVWXYZ"
DIGITS == "0123456789"

LowerSet == {Ch(LOWER, k) : k \in 1..Len(LOWER)}
UpperSet == {Ch(UPPER, k) : k \in 1..Len(UPPER)}
DigitSet == {Ch(DIGITS, k) : k \in 1..Len(DIGITS)}

\* \w of a JavaScript regular expression
WordSet == LowerSet \cup UpperSet \cup DigitSet \cup {"_"}
\* \s of a JavaScript regular expression (the characters the inputs use)
SpaceSet == {" ", "\n", "\t", "\r"}
\* the characters `.' does not match
LineTermSet == {"\n", "\r"}

\* String.prototype.toLowerCase, one character
LowerCh(c) ==
  IF c \in UpperSet
    THEN Ch(LOWER, CHOOSE k \in 1..Len(UPPER) : Ch(UPPER, k) = c)
    ELSE c

RECURSIVE toLowerCase(_)
toLowerCase(s) ==
  IF Len(s) = 0 THEN ""
  ELSE IF Len(s) = 1 THEN LowerCh(s)
  ELSE toLowerCase(Sub(s, 1, Len(s) \div 2))
         \o toLowerCase(Sub(s, Len(s) \div 2 + 1, Len(s)))

\* String.prototype.trim / trimEnd
RECURSIVE trimStart(_)
trimStart(s) ==
  IF s # "" /\ Ch(s, 1) \in SpaceSet THEN trimStart(Sub(s, 2, Len(s))) ELSE s

RECURSIVE trimEnd(_)
trimEnd(s) ==
  IF s # "" /\ Ch(s, Len(s)) \in SpaceSet
    THEN trimEnd(Sub(s, 1, Len(s) - 1)) ELSE s

trim(s) == trimEnd(trimStart(s))

(* ------------------- regular-expression combinators ------------------- *)
(* A position p in 1..Len(s)+1 stands before character p.  A combinator    *)
(* maps the set of positions where the match so far may stand to the set   *)
(* of positions after one more piece of the pattern.                       *)

\* every position an unanchored match (RegExp.test) may start at
Anywhere(s) == 1..(Len(s) + 1)

IsWordAt(s, p) == p >= 1 /\ p <= Len(s) /\ Ch(s, p) \in WordSet

\* \b
B(s, P) == {p \in P : IsWordAt(s, p - 1) # IsWordAt(s, p)}

\* a literal
Lit(s, P, w) ==
  {p + Len(w) : p \in {q \in P : q + Len(w) - 1 <= Len(s)
                                  /\ Sub(s, q, q + Len(w) - 1) = w}}

\* (w)?
Opt(s, P, w) == P \cup Lit(s, P, w)

\* \s*
WS0(s, P) ==
  {q \in Anywhere(s) : \E p \in P : p <= q /\ \A k \in p..(q - 1) : Ch(s, k) \in SpaceSet}

\* \s+
WS1(s, P) == {q \in WS0(s, P) : \E p \in P : p < q /\ \A k \in p..(q - 1) : Ch(s, k) \in SpaceSet}

\* .*
Dots(s, P) ==
  {q \in Anywhere(s) : \E p \in P : p <= q /\ \A k \in p..(q - 1) : Ch(s, k) \notin LineTermSet}

\* \d
Dig(s, P) == {p + 1 : p \in {q \in P : q <= Len(s) /\ Ch(s, q) \in DigitSet}}

\* \bw  and  \bw\b  started anywhere
WStart(s, w) == {p \in Lit(s, Anywhere(s), w) : B(s, {p - Len(w)}) # {}}
W(s, w) == B(s, WStart(s, w)) # {}

\* \bw1\s+w2\b  and  \bw1\s*w2\b
W2(s, a, b) == B(s, Lit(s, WS1(s, WStart(s, a)), b)) # {}
W2opt(s, a, b) == B(s, Lit(s, WS0(s, WStart(s, a)), b)) # {}

\* \bw1\b.*\bw2\b
WThen(s, a, b) == B(s, Lit(s, B(s, Dots(s, B(s, WStart(s, a)))), b)) # {}

(* ------------------------ query classification ------------------------ *)

norm(s) == toLowerCase(s)

\* \bw1\s+w2\s+...\s+wn\b
RECURSIVE PhraseFrom(_, _, _, _)
PhraseFrom(s, P, ws, k) ==
  IF k > Len(ws) THEN P
  ELSE PhraseFrom(s, Lit(s, IF k = 1 THEN P ELSE WS1(s, P), ws[k]), ws, k + 1)

Phrase(s, ws) == B(s, PhraseFrom(s, B(s, Anywhere(s)), ws, 1)) # {}

\* some pattern \bw\b with w in ws matches
AnyW(s, ws) == \E w \in ws : W(s, w)

\* e\.?\s*b\.?\s*o\.?  started at a word boundary
EboAbbrev(s) ==
  LET pe == Opt(s, Lit(s, B(s, Anywhere(s)), "e"), ".")
      pb == Opt(s, Lit(s, WS0(s, pe), "b"), ".")
  IN  Opt(s, Lit(s, WS0(s, pb), "o"), ".")

\* exploratory\b.*\bbibliograph  started at a word boundary
EboLong(s) == Lit(s, B(s, Dots(s, B(s, WStart(s, "exploratory")))), "bibliograph")

\* /\b(e\.?\s*b\.?\s*o\.?|exploratory\b.*\bbibliograph)/  on a lowered string
EboRx(s) == EboAbbrev(s) \cup EboLong(s)

\* /\bessay|essays\b/  on a lowered string
EssayRx(s) == WStart(s, "essay") \cup B(s, Lit(s, Anywhere(s), "essays"))

mentionsEBO(q) == EboRx(norm(q)) # {}

\* mentionsEssayOnly without the exclusion of EBO queries
mentionsEssayOnly_noExclusion(q) == EssayRx(norm(q)) # {}

mentionsEssayOnly(q) == EssayRx(norm(q)) # {} /\ ~mentionsEBO(q)

\* v3: hasLogisticsIntent
LogisticsPats(s) ==
  \/ WThen(s, "when", "due")
  \/ W2opt(s, "due", "date")
  \/ AnyW(s, {"deadline", "due", "late", "penalty", "penalties"})
  \/ W2(s, "submission", "window")
  \/ AnyW(s, {"submit", "worth", "weight", "weighting", "percent", "percentage",
              "mark", "marks", "open", "opens", "opening", "close", "closes",
              "closing", "availability", "window", "date", "time", "schedule"})

hasLogisticsIntent(q) == LogisticsPats(norm(q))

\* the 22 patterns the instruction-intent lists of v2, v3 and v4 share
InstructionPats22(s) ==
  \/ W2(s, "how", "to")
  \/ Phrase(s, <<"how", "do", "i">>)
  \/ AnyW(s, {"instruction", "instructions", "step", "steps", "format",
              "formatting", "citation", "citations", "reference", "references",
              "mla", "chicago", "turabian", "rubric", "requirement",
              "requirements"})
  \/ W2opt(s, "word", "count")
  \/ AnyW(s, {"structure", "outline", "outlines", "template", "scaffold",
              "scaffolding", "submit", "submitting", "submission", "checklist",
              "example", "examples"})
  \/ W2(s, "model", "paper")

\* the 3 patterns v3 and v4 add
InstructionPats3(s) ==
  \/ Phrase(s, <<"can", "i", "use">>)
  \/ Phrase(s, <<"is", "it", "okay", "to">>)
  \/ W2(s, "should", "i")

\* v3: hasInstructionIntent
hasInstructionIntent(q) == InstructionPats22(norm(q)) \/ InstructionPats3(norm(q))

\* shouldRouteToEboEssayBot without the logistics override
shouldRouteToEboEssayBot_noOverride(q) ==
  IF ~(mentionsEBO(q) \/ mentionsEssayOnly(q)) THEN FALSE
  ELSE hasInstructionIntent(q)

\* v3: shouldRouteToEboEssayBot
shouldRouteToEboEssayBot(q) ==
  IF ~(mentionsEBO(q) \/ mentionsEssayOnly(q)) THEN FALSE
  ELSE IF hasLogisticsIntent(q) THEN FALSE
  ELSE hasInstructionIntent(q)

\* v1: hasDueIntent
hasDueIntent(q) ==
  LET s == norm(q)
  IN  \/ WThen(s, "when", "due")
      \/ W2opt(s, "due", "date")
      \/ AnyW(s, {"deadline", "due", "late", "penalty", "penalties"})
      \/ W2(s, "submission", "window")
      \/ W(s, "submit")

\* v2: hasEboEssayMention
hasEboEssayMention(q) == EboRx(toLowerCase(q)) # {} \/ EssayRx(toLowerCase(q)) # {}

\* v2: hasInstructionIntent (22 patterns)
hasInstructionIntent_v2(q) == InstructionPats22(toLowerCase(q))

\* v2: hasLogisticsOnlyIntent;  v4: isLogisticsIntent has the same patterns
\* but for /\bhow\s+many\s+marks\b/, which /\bmarks?\b/ subsumes
LogisticsOnlyPats(s, withHowMany) ==
  \/ W2opt(s, "due", "date")
  \/ AnyW(s, {"deadline", "due"})
  \/ WThen(s, "when", "due")
  \/ AnyW(s, {"weight", "weighting", "worth", "percent", "percentage"})
  \/ (withHowMany /\ Phrase(s, <<"how", "many", "marks">>))
  \/ AnyW(s, {"mark", "marks", "open", "opens", "opening", "close", "closes",
              "closing", "availability", "window", "date", "time", "schedule"})

hasLogisticsOnlyIntent(q) == LogisticsOnlyPats(toLowerCase(q), TRUE)

\* v2: shouldRouteToEboEssay
shouldRouteToEboEssay(q) ==
  IF ~hasEboEssayMention(q) THEN FALSE
  ELSE IF hasLogisticsOnlyIntent(q) THEN FALSE
  ELSE hasInstructionIntent_v2(q)

\* v4: mentionsEBOorEssay
\* /\b(e\.?\s*b\.?\s*o\.?|exploratory\b.*\bbibliograph|essay|essays)\b/
mentionsEBOorEssay(q) ==
  LET s == norm(q)
  IN  B(s, EboRx(s) \cup WStart(s, "essay") \cup WStart(s, "essays")) # {}

\* v4: isInstructionIntent
isInstructionIntent(q) == InstructionPats22(norm(q)) \/ InstructionPats3(norm(q))

\* v4: isLogisticsIntent
isLogisticsIntent(q) == LogisticsOnlyPats(norm(q), FALSE)

\* v4: shouldRouteToEboEssayBot
shouldRouteToEboEssayBot_v4(q) ==
  mentionsEBOorEssay(q) /\ isInstructionIntent(q) /\ ~isLogisticsIntent(q)

(* --------------------------- content parsing --------------------------- *)

Max(S) == CHOOSE m \in S : \A o \in S : o <= m
Min(S) == CHOOSE m \in S : \A o \in S : m <= o

\* ^ and $ of a regular expression with the m flag
LineStart(s, p) == p = 1 \/ Ch(s, p - 1) \in LineTermSet
LineEnd(s, p) == p = Len(s) + 1 \/ Ch(s, p) \in LineTermSet

\* the end of the line position p lies on
EndOfLine(s, p) == Min({q \in p..(Len(s) + 1) : LineEnd(s, q)})

\* #{1,6}
Hashes(s, P) ==
  {q \in Anywhere(s) : \E p \in P : q - p \in 1..6 /\ \A k \in p..(q - 1) : Ch(s, k) = "#"}

\* HEADING_RX = /^(#{1,6})\s+(.+)$/ tried at position p: the positions where
\* group 2 may start (the greedy \s+ takes the largest)
HeadingText(s, p) ==
  IF LineStart(s, p)
    THEN {q \in WS1(s, Hashes(s, {p})) : q <= Len(s) /\ Ch(s, q) \notin LineTermSet}
    ELSE {}

\* md.matchAll(HEADING_RX) from position `from': <<index, start of group 2, end>>
RECURSIVE HeadingMatches(_, _)
HeadingMatches(md, from) ==
  LET cand == {p \in from..Len(md) : HeadingText(md, p) # {}}
  IN  IF cand = {} THEN <<>>
      ELSE LET p == Min(cand)
               t == Max(HeadingText(md, p))
               e == EndOfLine(md, t)
           IN  <<[index |-> p, text |-> t, end |-> e]>> \o HeadingMatches(md, e)

\* \d+ (greedy) from each position of P
DigRun(s, P) ==
  {q \in Anywhere(s) : \E p \in P : p < q /\ (\A k \in p..(q - 1) : Ch(s, k) \in DigitSet)
                                     /\ ~(q <= Len(s) /\ Ch(s, q) \in DigitSet)}

LESSON_PREFIX == "https://westernu.brightspace.com/d2l/le/lessons/"

\* LESSON_RE tried at position p: the end of the match, or {}
LessonAt(s, p) ==
  LET a == Lit(s, DigRun(s, Lit(s, {p}, LESSON_PREFIX)), "/")
      k == Lit(s, a, "lessons") \cup Lit(s, a, "units") \cup Lit(s, a, "topics")
  IN  DigRun(s, Lit(s, k, "/"))

\* s.match(LESSON_RE) || []
RECURSIVE LessonMatches(_, _)
LessonMatches(s, from) ==
  LET cand == {p \in from..Len(s) : Ch(s, p) = "h" /\ LessonAt(s, p) # {}}
  IN  IF cand = {} THEN <<>>
      ELSE LET p == Min(cand)
               e == Max(LessonAt(s, p))
           IN  <<Sub(s, p, e - 1)>> \o LessonMatches(s, e)

\* Array.from(new Set(xs)): first occurrences, in order
RECURSIVE Dedupe(_)
Dedupe(xs) ==
  IF xs = <<>> THEN <<>>
  ELSE LET init == Dedupe(SubSeq(xs, 1, Len(xs) - 1))
           last == xs[Len(xs)]
       IN  IF \E i \in 1..Len(init) : init[i] = last THEN init ELSE Append(init, last)

parseSections(md) ==
  LET matches == HeadingMatches(md, 1)
  IN  [i \in 1..Len(matches) |->
        LET m == matches[i]
            end == IF i < Len(matches) THEN matches[i + 1].index ELSE Len(md) + 1
            heading == trim(Sub(md, m.text, m.end - 1))
            body == Sub(md, m.end, end - 1)
        IN  [heading |-> heading, body |-> body,
             lessonUrls |-> Dedupe(LessonMatches(heading, 1) \o LessonMatches(body, 1))]]

\* xs.filter(keep)
RECURSIVE Filter(_, _)
Filter(xs, keep) ==
  IF xs = <<>> THEN <<>>
  ELSE (IF xs[1] \in keep THEN <<xs[1]>> ELSE <<>>) \o Filter(Tail(xs), keep)

Range(xs) == {xs[i] : i \in 1..Len(xs)}

\* pickSectionsForEntity without the exclusion of EBO sections for the essay
pickSectionsForEntity_noExclusion(sections, entity) ==
  Filter(sections,
    {sec \in Range(sections) :
       LET hay == norm(sec.heading \o "\n" \o sec.body)
       IN  IF entity = "ebo" THEN EboRx(hay) # {} ELSE EssayRx(hay) # {}})

\* v3: pickSectionsForEntity
pickSectionsForEntity(sections, entity) ==
  Filter(sections,
    {sec \in Range(sections) :
       LET hay == norm(sec.heading \o "\n" \o sec.body)
           hasEBO == EboRx(hay) # {}
           hasEssay == EssayRx(hay) # {}
       IN  IF entity = "ebo" THEN hasEBO ELSE (hasEssay /\ ~hasEBO)})

\* v1: pickSectionsForEntity, whose EBO pattern ends in \b
pickSectionsForEntity_v1(sections, entity) ==
  Filter(sections,
    {sec \in Range(sections) :
       LET hay == norm(sec.heading \o "\n" \o sec.body)
           hasEBO == B(hay, EboRx(hay)) # {}
           hasEssay == EssayRx(hay) # {}
       IN  IF entity = "ebo" THEN hasEBO ELSE (hasEssay /\ ~hasEBO)})

(* ------------------ deterministic due/penalty extractor ------------------ *)

WEEKDAYS == {"monday", "tuesday", "wednesday", "thursday", "friday", "saturday", "sunday"}

MONTHS ==
  {"jan", "feb", "mar", "apr", "may", "jun", "jul", "aug", "sep", "sept", "oct",
   "nov", "dec", "january", "february", "march", "april", "june", "july",
   "august", "september", "october", "november", "december"}

\* \d{1,2}
Dig12(s, P) == Dig(s, P) \cup Dig(s, Dig(s, P))

\* DATEISH.test(s); the i flag is modelled by lowering the string
DATEISH(s) ==
  LET t == toLowerCase(s)
      st == B(t, Anywhere(t))
      d12 == Dig12(t, st)
      hm == WS0(t, Dig(t, Dig(t, Lit(t, d12, ":"))))
  IN  \/ AnyW(t, WEEKDAYS)
      \/ AnyW(t, MONTHS)
      \/ B(t, d12 \cup Lit(t, d12, "st") \cup Lit(t, d12, "nd")
                  \cup Lit(t, d12, "rd") \cup Lit(t, d12, "th")) # {}
      \/ B(t, Dig(t, Dig(t, Dig(t, Dig(t, st))))) # {}
      \/ B(t, Lit(t, hm, "am") \cup Lit(t, hm, "pm")) # {}

\* /\b(due|deadline)\b/i.test(s) && DATEISH.test(s)
looksLikeDueLine(s) ==
  AnyW(toLowerCase(s), {"due", "deadline"}) /\ DATEISH(s)

\* v3: /\b(late|penalt(y|ies)|submit|submissions?)\b/i
looksLikePenaltyOrSubmitLine(s) ==
  AnyW(toLowerCase(s), {"late", "penalty", "penalties", "submit", "submission", "submissions"})

\* text.split(/\r?\n/)
RECURSIVE SplitLines(_)
SplitLines(text) ==
  LET nl == {i \in 1..Len(text) : Ch(text, i) = "\n"}
  IN  IF nl = {} THEN <<text>>
      ELSE LET i == Min(nl)
               e == IF i > 1 /\ Ch(text, i - 1) = "\r" THEN i - 2 ELSE i - 1
           IN  <<Sub(text, 1, e)>> \o SplitLines(Sub(text, i + 1, Len(text)))

\* xs.join(sep)
RECURSIVE Join(_, _)
Join(xs, sep) ==
  IF xs = <<>> THEN ""
  ELSE IF Len(xs) = 1 THEN xs[1]
  ELSE xs[1] \o sep \o Join(Tail(xs), sep)

\* the index of the first line that looks like a real due line, or 0
DueLineIndex(lines) ==
  LET hit == {i \in 1..Len(lines) : trim(lines[i]) # "" /\ looksLikeDueLine(trim(lines[i]))}
  IN  IF hit = {} THEN 0 ELSE Min(hit)

NoBlock == [found |-> FALSE, text |-> ""]

\* v3: the loop that appends the lines after the due line (cap: buf.length < 9)
RECURSIVE AppendFollowing(_, _, _)
AppendFollowing(lines, j, buf) ==
  IF ~(j <= Len(lines) /\ Len(buf) < 9) THEN buf
  ELSE IF trim(lines[j]) = "" THEN buf
  ELSE IF \/ looksLikePenaltyOrSubmitLine(lines[j])
          \/ DATEISH(lines[j])
          \/ Len(trim(lines[j])) > 0
         THEN AppendFollowing(lines, j + 1, Append(buf, trimEnd(lines[j])))
  ELSE buf

\* extractDueBlockFrom starting at the top of the paragraph of the due line
extractDueBlockFrom_upward(text) ==
  LET lines == SplitLines(text)
      start == DueLineIndex(lines)
      top == Min({i \in 1..start : \A j \in i..start : trim(lines[j]) # ""})
  IN  IF start = 0 THEN NoBlock
      ELSE [found |-> TRUE,
            text |-> Join(AppendFollowing(lines, top + 1, <<trim(lines[top])>>), "\n")]

\* v3: extractDueBlockFrom
extractDueBlockFrom(text) ==
  LET lines == SplitLines(text)
      start == DueLineIndex(lines)
  IN  IF start = 0 THEN NoBlock
      ELSE [found |-> TRUE,
            text |-> Join(AppendFollowing(lines, start + 1, <<trim(lines[start])>>), "\n")]

\* v1: first pass of cleanupSuperscripts, /(\d+)\^([a-z]{1,4})\^/gi -> "$1$2":
\* the end of the match tried at p, or {}
Super1At(s, p) ==
  LET caret == Lit(s, DigRun(s, {p}), "^")
      lets == {q \in Anywhere(s) : \E c \in caret : q - c \in 1..4
                 /\ \A k \in c..(q - 1) : LowerCh(Ch(s, k)) \in LowerSet}
  IN  Lit(s, lets, "^")

RECURSIVE Super1(_)
Super1(s) ==
  LET cand == {p \in 1..Len(s) : Super1At(s, p) # {}}
  IN  IF cand = {} THEN s
      ELSE LET p == Min(cand)
               e == Min(Super1At(s, p))
               c == Min({k \in p..(e - 1) : Ch(s, k) = "^"})
           IN  Sub(s, 1, p - 1) \o Sub(s, p, c - 1) \o Sub(s, c + 1, e - 2)
                 \o Super1(Sub(s, e, Len(s)))

\* v1: second pass, /\^([^^\s]{1,10})\^/g -> "$1"
Super2At(s, p) ==
  LET inner == {q \in Anywhere(s) : q - (p + 1) \in 1..10
                  /\ \A k \in (p + 1)..(q - 1) : Ch(s, k) \notin (SpaceSet \cup {"^"})}
  IN  Lit(s, IF p <= Len(s) /\ Ch(s, p) = "^" THEN inner ELSE {}, "^")

RECURSIVE Super2(_)
Super2(s) ==
  LET cand == {p \in 1..Len(s) : Super2At(s, p) # {}}
  IN  IF cand = {} THEN s
      ELSE LET p == Min(cand)
               e == Min(Super2At(s, p))
           IN  Sub(s, 1, p - 1) \o Sub(s, p + 1, e - 2) \o Super2(Sub(s, e, Len(s)))

\* v1: cleanupSuperscripts
cleanupSuperscripts(s) == Super2(Super1(s))

\* the loop of v1 without the cap on buf.length
RECURSIVE AppendFollowing_v1_noCap(_, _, _)
AppendFollowing_v1_noCap(lines, j, buf) ==
  IF ~(j <= Len(lines)) THEN buf
  ELSE IF trim(lines[j]) = "" THEN buf
  ELSE AppendFollowing_v1_noCap(lines, j + 1,
                                Append(buf, cleanupSuperscripts(trimEnd(lines[j]))))

\* v1: the loop that appends the lines after the due line (cap: buf.length < 12)
RECURSIVE AppendFollowing_v1(_, _, _)
AppendFollowing_v1(lines, j, buf) ==
  IF ~(j <= Len(lines) /\ Len(buf) < 12) THEN buf
  ELSE IF trim(lines[j]) = "" THEN buf
  ELSE AppendFollowing_v1(lines, j + 1, Append(buf, cleanupSuperscripts(trimEnd(lines[j]))))

\* v1: buf.pop() while the last entry is blank
RECURSIVE PopBlank(_)
PopBlank(buf) ==
  IF buf # <<>> /\ trim(buf[Len(buf)]) = "" THEN PopBlank(SubSeq(buf, 1, Len(buf) - 1))
  ELSE buf

\* v1: extractDueBlockFrom
extractDueBlockFrom_v1(text) ==
  LET lines == SplitLines(text)
      start == DueLineIndex(lines)
  IN  IF start = 0 THEN NoBlock
      ELSE [found |-> TRUE,
            text |-> Join(PopBlank(AppendFollowing_v1(lines, start + 1,
                            <<cleanupSuperscripts(trim(lines[start]))>>)), "\n")]

\* /\bdue|deadline\b/i.test(heading)
HeadingHasDueCue(heading) ==
  LET t == toLowerCase(heading)
  IN  WStart(t, "due") \cup B(t, Lit(t, Anywhere(t), "deadline")) # {}

NoDet == [found |-> FALSE, text |-> "", urls |-> <<>>]

\* `${s.heading}\n${s.body}`
Combined(sec) == sec.heading \o "\n" \o sec.body

\* extractDueBlockFrom of program v
ExtractBlock(v, text) ==
  IF v = "v1" THEN extractDueBlockFrom_v1(text) ELSE extractDueBlockFrom(text)

\* pickSectionsForEntity of program v
PickSections(v, secs, entity) ==
  IF v = "v1" THEN pickSectionsForEntity_v1(secs, entity)
  ELSE pickSectionsForEntity(secs, entity)

\* const entity = mentionsEBO(query) ? "ebo" : "essay"
EntityOf(q) == IF mentionsEBO(q) THEN "ebo" ELSE "essay"

\* the pool taken in document order, headings with a due cue not preferred
Prioritize_documentOrder(p) == p

\* [...pool.filter(cue in heading), ...pool.filter(no cue in heading)]
Prioritize(p) ==
  LET due == {sec \in Range(p) : HeadingHasDueCue(sec.heading)}
  IN  Filter(p, due) \o Filter(p, Range(p) \ due)

\* if (block) return { text, urls }
DetAnswer(entity, sec, blk) ==
  [found |-> TRUE,
   text |-> "According to the syllabus, the "
              \o (IF entity = "ebo" THEN "EBO" ELSE "essay")
              \o " details are:\n\n" \o blk.text,
   urls |-> Dedupe(sec.lessonUrls)]

\* the for loop of answerDueDeterministically over the prioritized sections
RECURSIVE FirstBlock(_, _, _)
FirstBlock(secs, entity, v) ==
  IF secs = <<>> THEN NoDet
  ELSE LET blk == ExtractBlock(v, Combined(secs[1]))
       IN  IF blk.found /\ blk.text # ""
             THEN DetAnswer(entity, secs[1], blk)
             ELSE FirstBlock(Tail(secs), entity, v)

\* answerDueDeterministically (v1 and v3 differ in the helpers they call)
answerDueDeterministically(q, md, v) ==
  FirstBlock(Prioritize(PickSections(v, parseSections(md), EntityOf(q))), EntityOf(q), v)

(* ------------------------------- inputs ------------------------------- *)

\* the longest query, in words
MaxQueryWords == 3

QueryWords == {"ebo", "essay", "format", "due", "submit"}

\* the sequences of 1..n different words
RECURSIVE WordSeqs(_)
WordSeqs(n) ==
  IF n = 1 THEN {<<w>> : w \in QueryWords}
  ELSE WordSeqs(n - 1)
         \cup {Append(a, w) : a \in WordSeqs(n - 1), w \in QueryWords}

Sentences(n) ==
  {Join(ws, " ") : ws \in {a \in WordSeqs(n) : Cardinality(Range(a)) = Len(a)}}

\* the query field of a request body: blank, padded or a sentence
RawQueries ==
  {"", " \n", " essay due ", "E.B.O. Essays", "Should I use the essayist?"}
    \cup Sentences(MaxQueryWords)

Methods == {"OPTIONS", "GET", "POST"}

\* a request body: not JSON, JSON without a query field, JSON with one
Bodies ==
  {[json |-> FALSE, hasQuery |-> FALSE, query |-> ""],
   [json |-> TRUE, hasQuery |-> FALSE, query |-> ""]}
    \cup {[json |-> TRUE, hasQuery |-> TRUE, query |-> q] : q \in RawQueries}

DocEssay ==
  "## Essay Due Dates\nThe essay is due Friday, March 14th at 11:59pm.\nLate submissions lose 10% per day.\n\n## Extensions\nContact the instructor."

DocEbo ==
  "# EBO\nhttps://westernu.brightspace.com/d2l/le/lessons/1/topics/2\nThe EBO is due Oct 8^th^.\n# Essay\nTBA"

DocNoHeadings == "The essay and the EBO are due March 14."

DocNoDate == "## Essay and EBO due dates\nSee the course page."

\* what Deno.readTextFile may give: a document, or a failure
FileOutcomes ==
  {[ok |-> FALSE, text |-> ""]}
    \cup {[ok |-> TRUE, text |-> d] : d \in {"", DocEssay, DocEbo, DocNoHeadings, DocNoDate}}

\* what the completion call may give: fetch rejects; the reply is not JSON;
\* JSON without choices[0].message.content; empty content; content
CompletionOutcomes ==
  {[kind |-> "fetchThrows", content |-> ""],
   [kind |-> "notJson", content |-> ""],
   [kind |-> "noChoices", content |-> ""],
   [kind |-> "content", content |-> ""],
   [kind |-> "content", content |-> "See the syllabus."]}

\* what the analytics call may give: an HTTP status, or fetch rejects
AnalyticsOutcomes ==
  {[threw |-> TRUE, status |-> 0], [threw |-> FALSE, status |-> 200],
   [threw |-> FALSE, status |-> 401]}

Versions == {"v1", "v2", "v3", "v4"}

\* which of QUALTRICS_API_TOKEN, QUALTRICS_SURVEY_ID, QUALTRICS_DATACENTER are set
QualtricsEnvs ==
  {[token |-> TRUE, survey |-> TRUE, datacenter |-> TRUE],
   [token |-> TRUE, survey |-> FALSE, datacenter |-> TRUE],
   [token |-> FALSE, survey |-> FALSE, datacenter |-> FALSE]}

(* ------------------------------- server ------------------------------- *)

VARIABLES
  version,          \* the program deployed
  OPENAI_API_KEY,   \* whether the environment sets it
  QUALTRICS,        \* which analytics credentials the environment sets
  pc,               \* where the handler stands: idle, or the call it awaits
  request,          \* the request being handled
  query,            \* (body?.query || "").trim()
  route,            \* the branch of the cascade the handler took
  materials,        \* the text readFileSafe returned
  det,              \* the result of answerDueDeterministically
  baseResponse,     \* the completion text or the placeholder
  result,           \* the answer text composed for the caller
  routedTo,         \* the label for the analytics sink
  qualtricsStatus,  \* the analytics status appended to the body
  response,         \* the HTTP response
  calls,            \* the downstream calls made for this request, in order
  step,             \* where answerDueDeterministically stands, "" when it does not run
  sections,         \* parseSections(md)
  pool,             \* pickSectionsForEntity(sections, entity)
  prioritized,      \* the pool, sections with a due cue in the heading first
  tried,            \* how many sections of `prioritized' the loop has visited
  block             \* what extractDueBlockFrom returned for the last one visited

env == <<version, OPENAI_API_KEY, QUALTRICS>>
locals == <<step, sections, pool, prioritized, tried, block>>
vars == <<version, OPENAI_API_KEY, QUALTRICS, pc, request, query, route, materials,
          det, baseResponse, result, routedTo, qualtricsStatus, response, calls, locals>>

EBO_ESSAY_LINK == "https://westernu.brightspace.com/d2l/le/lessons/130641/topics/3411596"

\* COURSE_PAGE (v1) and SYLLABUS_LINK (v2, v3, v4) when the environment sets neither
SYLLABUS_LINK(v) ==
  IF v \in {"v1", "v4"} THEN "https://westernu.brightspace.com/d2l/home/130641" ELSE ""

DISCLAIMER == "There may be errors in my responses; always refer to the course page: "

PLACEHOLDER == "No response from the assistant."

NoRequest == [method |-> "", body |-> [json |-> FALSE, hasQuery |-> FALSE, query |-> ""]]
NoResponse == [status |-> 0, body |-> ""]

\* `${n}` of a non-negative integer
RECURSIVE NumToStr(_)
NumToStr(n) ==
  IF n < 10 THEN Ch(DIGITS, n + 1) ELSE NumToStr(n \div 10) \o Ch(DIGITS, (n % 10) + 1)

Init ==
  /\ version \in Versions
  /\ OPENAI_API_KEY \in BOOLEAN
  /\ QUALTRICS \in QualtricsEnvs
  /\ pc = "idle"
  /\ request = NoRequest
  /\ query = ""
  /\ route = ""
  /\ materials = ""
  /\ det = NoDet
  /\ baseResponse = ""
  /\ result = ""
  /\ routedTo = ""
  /\ qualtricsStatus = ""
  /\ response = NoResponse
  /\ calls = <<>>
  /\ step = ""
  /\ sections = <<>>
  /\ pool = <<>>
  /\ prioritized = <<>>
  /\ tried = 0
  /\ block = NoBlock

\* QUALTRICS_API_TOKEN && QUALTRICS_SURVEY_ID && QUALTRICS_DATACENTER
QualtricsConfigured == QUALTRICS.token /\ QUALTRICS.survey /\ QUALTRICS.datacenter

\* the redirect test of the deployed program (v1 has none)
ShouldRedirect(v, q) ==
  CASE v = "v1" -> FALSE
    [] v = "v2" -> shouldRouteToEboEssay(q)
    [] v = "v3" -> shouldRouteToEboEssayBot(q)
    [] v = "v4" -> shouldRouteToEboEssayBot_v4(q)

\* the deterministic test without the entity condition
ShouldExtract_noEntity(v, q) ==
  CASE v = "v1" -> hasDueIntent(q)
    [] v = "v3" -> hasLogisticsIntent(q)
    [] OTHER -> FALSE

\* the test guarding the deterministic branch (v2 and v4 have none)
ShouldExtract(v, q) ==
  CASE v = "v1" -> hasDueIntent(q) /\ (mentionsEBO(q) \/ mentionsEssayOnly(q))
    [] v = "v3" -> hasLogisticsIntent(q) /\ (mentionsEBO(q) \/ mentionsEssayOnly(q))
    [] OTHER -> FALSE

\* return new Response(body, { status })
Reply(status, body) ==
  /\ pc' = "done"
  /\ response' = [status |-> status, body |-> body]

\* the body of a 200 response: v4 sends the text, the others append the status
Body(v, text, status) ==
  IF v = "v4" THEN text ELSE text \o "\n<!-- " \o status \o " -->"

\* the tail of a branch copied from the model path with its label left as it was
Answer_copiedLabel(text, label) ==
  /\ result' = text
  /\ routedTo' = "MODEL"
  /\ qualtricsStatus' = "Qualtrics not called"
  /\ IF QualtricsConfigured
       THEN pc' = "qualtrics" /\ UNCHANGED response
       ELSE Reply(200, Body(version, text, "Qualtrics not called"))

\* the tail of each branch: optional analytics, then the response
Answer(text, label) ==
  /\ result' = text
  /\ routedTo' = label
  /\ qualtricsStatus' = "Qualtrics not called"
  /\ IF QualtricsConfigured
       THEN pc' = "qualtrics" /\ UNCHANGED response
       ELSE Reply(200, Body(version, text, "Qualtrics not called"))

\* if (!OPENAI_API_KEY) return 500; otherwise go on to the completion call
KeyCheck(next) ==
  /\ UNCHANGED <<result, routedTo, qualtricsStatus>>
  /\ IF ~OPENAI_API_KEY
       THEN Reply(500, "Missing OpenAI API key")
       ELSE pc' = next /\ UNCHANGED response

\* an entry of `calls'
Call(to, outcome, text, q, label) ==
  [to |-> to, outcome |-> outcome, responseText |-> text, queryText |-> q, routedTo |-> label]

\* the query taken without trim()
QueryOf_noTrim(b) == IF b.hasQuery THEN b.query ELSE ""

\* const query = (body?.query || "").trim()
QueryOf(b) == trim(IF b.hasQuery THEN b.query ELSE "")

\* the responses to a request that is not a POST with JSON and a query
Reject(m, b) ==
  IF m = "OPTIONS" THEN Reply(204, "")
  ELSE IF m # "POST" THEN Reply(405, "Method Not Allowed")
  ELSE IF ~b.json THEN Reply(400, "Invalid JSON")
  ELSE Reply(400, "Missing query")

ROUTED ==
  "This looks like an EBO/Essay instruction question. Please use the EBO/Essay assistant:\n"
    \o EBO_ESSAY_LINK

\* the redirect branch without its return: the handler goes on to the file read
RedirectBranch_noReturn ==
  /\ route' = "Redirect"
  /\ pc' = "readFile"
  /\ UNCHANGED <<result, routedTo, qualtricsStatus, response>>

\* the branch if (shouldRouteToEboEssayBot(query)) { ... return }
RedirectBranch ==
  /\ route' = "Redirect"
  /\ Answer(ROUTED, "EBO_ESSAY_ASSISTANT")

\* the handler from the arrival of a request to its first downstream call
Request(m, b) ==
  /\ pc = "idle"
  /\ request' = [method |-> m, body |-> b]
  /\ UNCHANGED <<env, locals, materials, det, baseResponse, calls>>
  /\ IF m # "POST" \/ ~b.json \/ QueryOf(b) = ""
       THEN /\ query' = ""
            /\ UNCHANGED <<route, result, routedTo, qualtricsStatus>>
            /\ Reject(m, b)
       ELSE /\ query' = QueryOf(b)
            /\ IF ShouldRedirect(version, query') THEN RedirectBranch
               ELSE IF version \in {"v2", "v4"}
                 THEN route' = "Fallback" /\ KeyCheck("readFile")
               ELSE /\ pc' = "readFile"
                    /\ UNCHANGED <<route, result, routedTo, qualtricsStatus, response>>

\* "\n\nRelevant course page(s):\n- url\n- url", or ""
UrlsBlock(urls) ==
  IF urls # <<>>
    THEN "\n\nRelevant course page(s):\n"
           \o Join([i \in 1..Len(urls) |-> "- " \o urls[i]], "\n")
    ELSE ""

\* the deterministic branch with the key check placed before it
DeterministicBranch_keyFirst(d) ==
  /\ route' = "Deterministic"
  /\ det' = d
  /\ IF ~OPENAI_API_KEY THEN KeyCheck("openai")
     ELSE IF d.found
       THEN Answer(d.text \o UrlsBlock(d.urls) \o "\n\n" \o DISCLAIMER \o SYLLABUS_LINK(version),
                   "DETERMINISTIC_DUE")
     ELSE KeyCheck("openai")

\* the deterministic branch answering an extraction miss with an error
DeterministicBranch_missIsError(d) ==
  /\ route' = "Deterministic"
  /\ det' = d
  /\ IF d.found
       THEN Answer(d.text \o UrlsBlock(d.urls) \o "\n\n" \o DISCLAIMER \o SYLLABUS_LINK(version),
                   "DETERMINISTIC_DUE")
       ELSE /\ Reply(404, "Not found")
            /\ UNCHANGED <<result, routedTo, qualtricsStatus>>

\* the branch if (hasLogisticsIntent(query) && ...) { det = ...; if (det) { ... return } }
\* followed, when it does not return, by the key check of the model path
DeterministicBranch(d) ==
  /\ route' = "Deterministic"
  /\ det' = d
  /\ IF d.found
       THEN Answer(d.text \o UrlsBlock(d.urls) \o "\n\n" \o DISCLAIMER \o SYLLABUS_LINK(version),
                   "DETERMINISTIC_DUE")
       ELSE KeyCheck("openai")

\* await readFileSafe(CONTENT_FILE) returns, and the handler runs to its next call
ReadFile(f) ==
  /\ pc = "readFile"
  /\ materials' = IF f.ok THEN f.text ELSE ""
  /\ UNCHANGED <<env, locals, request, query, baseResponse>>
  /\ IF version \in {"v2", "v4"}
       THEN /\ pc' = "openai"
            /\ calls' = Append(calls, Call("readFile", IF f.ok THEN "ok" ELSE "error", "", "", ""))
            /\ UNCHANGED <<route, det, result, routedTo, qualtricsStatus, response>>
     ELSE IF ShouldExtract(version, query)
       THEN /\ calls' = calls \o <<Call("readFile", IF f.ok THEN "ok" ELSE "error", "", "", ""),
                                   Call("extractor", "", "", query, "")>>
            /\ DeterministicBranch(answerDueDeterministically(query, materials', version))
     ELSE /\ calls' = Append(calls, Call("readFile", IF f.ok THEN "ok" ELSE "error", "", "", ""))
          /\ route' = "Fallback"
          /\ UNCHANGED det
          /\ KeyCheck("openai")

\* the completion call returns (or rejects), and the handler runs to its next call
OpenAI(c) ==
  /\ pc = "openai"
  /\ calls' = Append(calls, Call("openai", c.kind, c.content, query, ""))
  /\ UNCHANGED <<env, locals, request, query, route, materials, det>>
  /\ IF c.kind \in {"fetchThrows", "notJson"}
       \* nothing catches the rejection: serve() answers for the handler
       THEN /\ Reply(500, "Internal Server Error")
            /\ UNCHANGED <<baseResponse, result, routedTo, qualtricsStatus>>
       ELSE LET base == IF c.kind = "content" /\ c.content # "" THEN c.content ELSE PLACEHOLDER
            IN  /\ baseResponse' = base
                /\ Answer(base \o "\n\n" \o DISCLAIMER \o SYLLABUS_LINK(version),
                          IF version \in {"v1", "v3"} THEN "MODEL" ELSE "GENERAL_ASSISTANT")

\* the analytics call returns (or rejects), and the handler responds
Qualtrics(a) ==
  /\ pc = "qualtrics"
  /\ calls' = Append(calls, Call("qualtrics", IF a.threw THEN "error" ELSE NumToStr(a.status),
                                 result, query, routedTo))
  /\ qualtricsStatus' = IF a.threw THEN "Qualtrics error"
                        ELSE "Qualtrics status: " \o NumToStr(a.status)
  /\ Reply(200, Body(version, result, qualtricsStatus'))
  /\ UNCHANGED <<env, locals, request, query, route, materials, det, baseResponse, result,
                 routedTo>>

\* the response is sent; the server waits for the next request
NextRequest ==
  /\ pc = "done"
  /\ pc' = "idle"
  /\ request' = NoRequest
  /\ query' = ""
  /\ route' = ""
  /\ materials' = ""
  /\ det' = NoDet
  /\ baseResponse' = ""
  /\ result' = ""
  /\ routedTo' = ""
  /\ qualtricsStatus' = ""
  /\ response' = NoResponse
  /\ calls' = <<>>
  /\ UNCHANGED <<env, locals>>

Next ==
  \/ \E m \in Methods, b \in Bodies : Request(m, b)
  \/ \E f \in FileOutcomes : ReadFile(f)
  \/ \E c \in CompletionOutcomes : OpenAI(c)
  \/ \E a \in AnalyticsOutcomes : Qualtrics(a)
  \/ NextRequest

Spec == Init /\ [][Next]_vars

(* ------------------ the deterministic answer, step by step ------------------ *)

\* the most sections of a document
MaxSections == 2

\* the lines that follow the due line in the longest paragraph
MaxParaLines == 13

\* heading lines: plain, with a due cue, naming the EBO, and a marker without text
HeadingLines == {"# Essay", "## Essay due", "# EBOs", "#  "}

RECURSIVE Repeat(_, _)
Repeat(t, n) == IF n = 0 THEN "" ELSE t \o Repeat(t, n - 1)

\* what follows a heading line: nothing; a due line with penalty line and, after
\* a blank line, a paragraph on extensions; a due line below another line;
\* a due line heading a long paragraph
BodyTexts ==
  {"",
   "due May 5^th^\nlate: -5%\n\nsee extension\n",
   "x\nThe EBO is due ^5^x\n",
   "Due May 5\n" \o Repeat("x\n", MaxParaLines)}

\* what precedes the first heading line
Preambles == {"", "essay due May 1\n"}

RECURSIVE SectionRuns(_)
SectionRuns(n) ==
  IF n = 0 THEN {""}
  ELSE SectionRuns(n - 1)
         \cup {d \o h \o "\n" \o b : d \in SectionRuns(n - 1), h \in HeadingLines, b \in BodyTexts}

\* the course documents: runs of sections, and short ones behind a preamble
Docs == SectionRuns(MaxSections) \cup {p \o d : p \in Preambles, d \in SectionRuns(1)}

\* queries of the deterministic branch, one for each entity
DueQueries == {"essay due", "ebo due"}

\* the handler has read the file and enters answerDueDeterministically(query, materials)
ExtractInit ==
  /\ version \in {"v1", "v3"}
  /\ OPENAI_API_KEY = TRUE
  /\ QUALTRICS = [token |-> FALSE, survey |-> FALSE, datacenter |-> FALSE]
  /\ pc = "readFile"
  /\ query \in DueQueries
  /\ request = [method |-> "POST", body |-> [json |-> TRUE, hasQuery |-> TRUE, query |-> query]]
  /\ route = ""
  /\ materials \in Docs
  /\ det = NoDet
  /\ baseResponse = ""
  /\ result = ""
  /\ routedTo = ""
  /\ qualtricsStatus = ""
  /\ response = NoResponse
  /\ calls = <<Call("readFile", "ok", "", "", "")>>
  /\ step = "parse"
  /\ sections = <<>>
  /\ pool = <<>>
  /\ prioritized = <<>>
  /\ tried = 0
  /\ block = NoBlock

handler == <<env, pc, request, query, route, materials, baseResponse, result, routedTo,
             qualtricsStatus, response, calls>>

\* const sections = parseSections(md)
ParseSections ==
  /\ step = "parse"
  /\ sections' = parseSections(materials)
  /\ step' = "pick"
  /\ UNCHANGED <<handler, det, pool, prioritized, tried, block>>

\* const pool = pickSectionsForEntity(sections, entity); const prioritized = [...]
PickAndPrioritize ==
  /\ step = "pick"
  /\ pool' = PickSections(version, sections, EntityOf(query))
  /\ prioritized' = Prioritize(pool')
  /\ step' = "loop"
  /\ UNCHANGED <<handler, det, sections, tried, block>>

\* one iteration of for (const s of prioritized) { ... if (block) return ... }
TrySection ==
  /\ step = "loop"
  /\ tried < Len(prioritized)
  /\ tried' = tried + 1
  /\ block' = ExtractBlock(version, Combined(prioritized[tried']))
  /\ IF block'.found /\ block'.text # ""
       THEN /\ det' = DetAnswer(EntityOf(query), prioritized[tried'], block')
            /\ step' = "return"
       ELSE UNCHANGED <<det, step>>
  /\ UNCHANGED <<handler, sections, pool, prioritized>>

\* the loop ends without a block: return null
ReturnNull ==
  /\ step = "loop"
  /\ tried = Len(prioritized)
  /\ det' = NoDet
  /\ step' = "return"
  /\ UNCHANGED <<handler, sections, pool, prioritized, tried, block>>

ExtractNext ==
  \/ ParseSections
  \/ PickAndPrioritize
  \/ TrySection
  \/ ReturnNull

ExtractSpec == ExtractInit /\ [][ExtractNext]_vars

(* ------------------------------ properties ------------------------------ *)

Routes == {"Redirect", "Deterministic", "Fallback"}

\* the indices of the calls made to one collaborator
CallsTo(to) == {i \in 1..Len(calls) : calls[i].to = to}

\* the handler is past validation: a POST with a JSON body and a non-empty query
Accepted == pc # "idle" /\ query # ""

Blank(s) == \A k \in 1..Len(s) : Ch(s, k) \in SpaceSet

Contains(s, w) ==
  \E p \in 1..(Len(s) - Len(w) + 1) : Ch(s, p) = Ch(w, 1) /\ Sub(s, p, p + Len(w) - 1) = w

StartsWith(s, w) == Len(w) <= Len(s) /\ Sub(s, 1, Len(w)) = w

\* C1: for every non-empty query the handler selects exactly one of Redirect,
\* Deterministic and Fallback: a finished request has one route; a redirected
\* request makes no call but the analytics one (no file read, no extractor, no
\* completion); a Fallback request never runs the extractor; a Deterministic
\* request runs it, and calls no completion once a block is found.
C1_ExactlyOneRoute ==
  /\ (pc = "done" /\ query # "") => route \in Routes
  /\ route = "Redirect" =>
       /\ pc \in {"qualtrics", "done"}
       /\ \A i \in 1..Len(calls) : calls[i].to = "qualtrics"
  /\ route = "Fallback" => CallsTo("extractor") = {}
  /\ route = "Deterministic" =>
       /\ CallsTo("extractor") # {}
       /\ det.found => (pc # "openai" /\ CallsTo("openai") = {})

C1_Witness ==
  /\ version = "v3" /\ pc = "done" /\ route = "Redirect"
  /\ query = "ebo format" /\ response.status = 200

\* the condition of C2, with the predicates of the deployed program
RedirectCondition(v, q) ==
  CASE v = "v2" -> /\ (mentionsEBO(q) \/ mentionsEssayOnly(q))
                   /\ hasInstructionIntent_v2(q)
                   /\ ~hasLogisticsOnlyIntent(q)
    [] v = "v3" -> /\ (mentionsEBO(q) \/ mentionsEssayOnly(q))
                   /\ hasInstructionIntent(q)
                   /\ ~hasLogisticsIntent(q)
    [] v = "v4" -> /\ mentionsEBOorEssay(q)
                   /\ isInstructionIntent(q)
                   /\ ~isLogisticsIntent(q)
    [] OTHER -> FALSE

\* C2: in the programs that redirect (v2, v3, v4) a query takes the redirect
\* route if and only if it mentions EBO or (exclusively) the essay, has
\* instruction intent and has no logistics intent.
C2_RedirectIff ==
  (Accepted /\ pc = "done" /\ version \in {"v2", "v3", "v4"}) =>
    (route = "Redirect" <=> RedirectCondition(version, query))

\* an instruction cue and a logistics cue together: no redirect
C2_Witness ==
  /\ version = "v3" /\ pc = "done" /\ query = "ebo format due"
  /\ hasInstructionIntent(query) /\ hasLogisticsIntent(query)
  /\ route # "Redirect"

\* C3: in the programs with an extractor (v1, v3) a query takes the
\* Deterministic route if and only if it was not redirected, has due
\* (v1) or logistics (v3) intent and mentions EBO or (exclusively) the essay.
C3_DeterministicIff ==
  (Accepted /\ pc \in {"openai", "qualtrics", "done"} /\ version \in {"v1", "v3"}) =>
    (route = "Deterministic" <=>
       /\ route # "Redirect"
       /\ IF version = "v1" THEN hasDueIntent(query) ELSE hasLogisticsIntent(query)
       /\ (mentionsEBO(query) \/ mentionsEssayOnly(query)))

C3_Witness ==
  /\ version = "v3" /\ pc = "done" /\ route = "Deterministic"
  /\ query = "essay due" /\ det.found

\* C4: mentionsEBO and mentionsEssayOnly are never both true of a query, and a
\* query matching both the EBO pattern and the essay keyword is EBO only.
C4_EntitiesExclusive ==
  /\ ~(mentionsEBO(query) /\ mentionsEssayOnly(query))
  /\ (EboRx(norm(query)) # {} /\ EssayRx(norm(query)) # {})
       => (mentionsEBO(query) /\ ~mentionsEssayOnly(query))

C4_Witness ==
  /\ query = "E.B.O. Essays"
  /\ EboRx(norm(query)) # {} /\ EssayRx(norm(query)) # {}

\* C5: a POST whose query is empty, missing or blank ends with a 400 response
\* and makes no downstream call.
C5_BlankQuery400 ==
  (/\ pc # "idle" /\ request.method = "POST" /\ request.body.json
   /\ (~request.body.hasQuery \/ Blank(request.body.query)))
    => (pc = "done" /\ response.status = 400 /\ calls = <<>>)

C5_Witness ==
  /\ pc = "done" /\ request.method = "POST" /\ request.body.hasQuery
  /\ request.body.query = " \n" /\ response = [status |-> 400, body |-> "Missing query"]

\* C6: the analytics call never affects the response: the status is 200 and the
\* body is the one sent when analytics is not configured.
C6_AnalyticsInvisible ==
  (pc = "done" /\ CallsTo("qualtrics") # {}) =>
    /\ response.status = 200
    /\ response.body = Body(version, result, "Qualtrics not called")

\* the completion call failed or gave no content
CompletionFailed ==
  \E i \in CallsTo("openai") :
    calls[i].outcome \in {"fetchThrows", "notJson", "noChoices"}
      \/ (calls[i].outcome = "content" /\ calls[i].responseText = "")

\* C7: when the completion call errors or returns an unexpected shape the
\* request completes normally with the placeholder as its answer text.
C7_CompletionFailurePlaceholder ==
  (pc = "done" /\ CompletionFailed) =>
    /\ response.status = 200
    /\ StartsWith(response.body, PLACEHOLDER)

\* C8: every 200 response of the three routes carries the disclaimer line
\* after the answer text.
C8_DisclaimerEverywhere ==
  (pc = "done" /\ response.status = 200 /\ route \in Routes) =>
    Contains(response.body, "\n\n" \o DISCLAIMER \o SYLLABUS_LINK(version))

\* C9: 500 "Missing OpenAI API key" is produced only on the fallback path:
\* without a key, a redirected request and a request whose extractor found a
\* block still get their 200 answer.
C9_MissingKeyOnlyOnFallback ==
  /\ response.body = "Missing OpenAI API key" =>
       /\ response.status = 500 /\ ~OPENAI_API_KEY
       /\ route \in {"Fallback", "Deterministic"} /\ ~det.found
  /\ (pc = "done" /\ ~OPENAI_API_KEY /\ (route = "Redirect" \/ det.found)) =>
       response.status = 200

C9_Witness ==
  /\ version = "v3" /\ ~OPENAI_API_KEY /\ pc = "done"
  /\ det.found /\ response.status = 200 /\ materials = DocEbo

\* C10: when the deterministic branch is taken and the extractor finds no
\* block, the handler goes on to the generative path: the completion call when
\* the key is set, the key-check response otherwise.
C10_MissFallsThrough ==
  (route = "Deterministic" /\ ~det.found) =>
    /\ OPENAI_API_KEY => (pc = "openai" \/ CallsTo("openai") # {})
    /\ ~OPENAI_API_KEY => response = [status |-> 500, body |-> "Missing OpenAI API key"]

C10_Witness ==
  /\ version = "v3" /\ route = "Deterministic" /\ ~det.found
  /\ materials = DocNoHeadings /\ parseSections(materials) = <<>>
  /\ pc = "openai"

(* ----------------------- sections and blocks ----------------------- *)

\* the positions where a line of t starts, lines ending at "\n"
LineStarts(t) == {a \in 1..Len(t) : a = 1 \/ Ch(t, a - 1) = "\n"}

\* the position of the last character of the line of t that starts at a
LineLast(t, a) == Min({i \in a..Len(t) : Ch(t, i) = "\n"} \cup {Len(t) + 1}) - 1

\* the section the loop visited last
Visited == prioritized[tried]

\* C11: the sections cover the document: every line is the heading line of a
\* section or lies in the body of exactly one section, and the body of the last
\* section runs to the end of the document.
C11_SectionsCoverDocument ==
  step \notin {"", "parse"} =>
    LET m == HeadingMatches(materials, 1)
        n == Len(sections)
        bodyEnd(i) == IF i < n THEN m[i + 1].index - 1 ELSE Len(materials)
        IsHeadingLine(a, i) == a = m[i].index /\ LineLast(materials, a) + 1 = m[i].end
        InBody(a, i) == /\ m[i].end <= a
                        /\ LineLast(materials, a) <= bodyEnd(i)
                        /\ sections[i].body = Sub(materials, m[i].end, bodyEnd(i))
    IN  /\ Len(m) = n
        /\ \A a \in LineStarts(materials) :
              \/ \E i \in 1..n : IsHeadingLine(a, i)
              \/ Cardinality({i \in 1..n : InBody(a, i)}) = 1
        /\ n > 0 => sections[n].body = Sub(materials, m[n].end, Len(materials))

\* C12: the first line of a block the extractor returns is a genuine due line:
\* it has a due/deadline keyword and a date-ish token.
C12_FirstLineIsDueLine ==
  block.found => looksLikeDueLine(SplitLines(block.text)[1])

\* the k-th smallest member of a set of numbers
Nth(S, k) == CHOOSE x \in S : Cardinality({y \in S : y < x}) = k - 1

\* the sections of p with a due/deadline cue in the heading, in the order of p,
\* then the others, in the order of p
StablePartition(p) ==
  LET cue == {i \in 1..Len(p) : HeadingHasDueCue(p[i].heading)}
      rest == (1..Len(p)) \ cue
  IN  [k \in 1..Len(p) |->
        IF k <= Cardinality(cue) THEN p[Nth(cue, k)] ELSE p[Nth(rest, k - Cardinality(cue))]]

\* the extractor finds a block in section sec
HasBlock(sec) == ExtractBlock(version, Combined(sec)).found

\* C13: the candidate sections are tried in stable-partition order (headings
\* with a due/deadline cue first, each group in document order), and the answer
\* comes from the first section in that order in which the extractor finds a
\* block; without such a section there is no answer.
C13_StablePartitionOrder ==
  step \in {"loop", "return"} =>
    /\ prioritized = StablePartition(pool)
    /\ \A j \in 1..(tried - 1) : ~HasBlock(prioritized[j])
    /\ step = "return" =>
          IF det.found
            THEN LET blk == ExtractBlock(version, Combined(Visited))
                 IN  /\ tried >= 1
                     /\ blk.found
                     /\ det.text = "According to the syllabus, the "
                                      \o (IF mentionsEBO(query) THEN "EBO" ELSE "essay")
                                      \o " details are:\n\n" \o blk.text
            ELSE tried = Len(prioritized) /\ (tried > 0 => ~HasBlock(Visited))

\* a section with a cue in its heading answers, though an earlier section of
\* the document has a block too
C13_Witness ==
  /\ step = "return" /\ det.found
  /\ Len(pool) = 2 /\ prioritized # pool
  /\ HasBlock(pool[1]) /\ Visited = pool[2]

\* C14: an essay query is never answered from a section whose heading or body
\* matches the EBO pattern; an EBO query is answered only from a section that
\* matches it.
C14_AnswerFromEntitySection ==
  (version = "v3" /\ step = "return" /\ det.found) =>
    IF mentionsEBO(query)
      THEN mentionsEBO(Combined(Visited))
      ELSE /\ ~mentionsEBO(Combined(Visited))
           /\ ~mentionsEBO(Visited.heading)
           /\ ~mentionsEBO(Visited.body)

\* an essay query is answered although an earlier section that names the essay
\* and the EBO has a block
C14_Witness ==
  /\ version = "v3" /\ step = "return" /\ det.found /\ ~mentionsEBO(query)
  /\ Len(sections) = 2 /\ Visited = sections[2]
  /\ mentionsEssayOnly_noExclusion(Combined(sections[1]))
  /\ mentionsEBO(Combined(sections[1]))
  /\ HasBlock(sections[1])

\* the lines of the section the extractor was given, and its due line
VisitedLines == SplitLines(Combined(Visited))
DueLine == DueLineIndex(VisitedLines)

\* the first and the last line of the paragraph (the maximal run of non-blank
\* lines) that holds line k
ParagraphTop(lines, k) ==
  Min({i \in 1..k : \A j \in i..k : trim(lines[j]) # ""})
ParagraphBottom(lines, k) ==
  Max({i \in k..Len(lines) : \A j \in k..i : trim(lines[j]) # ""})

\* the paragraphs of a text
Paragraphs(t) ==
  LET lines == SplitLines(t)
  IN  {Join(SubSeq(lines, ParagraphTop(lines, k), ParagraphBottom(lines, k)), "\n") :
         k \in {i \in 1..Len(lines) : trim(lines[i]) # ""}}

\* the extension/accommodation keyword set
ExtensionCue(t) ==
  \E w \in {"academic consideration", "accommodation", "extension", "medical",
            "mitigating", "documentation"} : Contains(toLowerCase(t), w)

\* a line as a block may carry it: trimmed, and with superscript markup cleaned
Forms(l) ==
  {trim(l), trimEnd(l), cleanupSuperscripts(trim(l)), cleanupSuperscripts(trimEnd(l))}

\* C15: a block holds every paragraph of the section that matches the
\* extension/accommodation keywords: in the due block already, or appended
\* after it behind a blank line.
C15_ExtensionParagraphsAppended ==
  block.found =>
    LET due == trim(VisitedLines[DueLine])
    IN  \A P \in Paragraphs(Combined(Visited)) :
          ExtensionCue(P) =>
            \E Q \in {P, cleanupSuperscripts(P)} :
              /\ Contains(block.text, Q)
              /\ Contains(P, due) \/ Contains(block.text, "\n\n" \o Q)

\* C16 as stated: the block is the whole paragraph of the due line: it starts
\* at the top of that paragraph, so the non-blank lines right above the due
\* line are part of it, in order, before the due line.
C16_WholeParagraph ==
  block.found =>
    LET lines == VisitedLines
        due == DueLineIndex(lines)
        top == ParagraphTop(lines, due)
        blk == SplitLines(block.text)
    IN  /\ Len(blk) >= due - top + 1
        /\ \A k \in top..due : blk[k - top + 1] \in Forms(lines[k])

\* C16: the block starts at the due line and extends downward only, over
\* non-blank lines adjacent to it; the non-blank lines right above the due line
\* are not part of it.
C16_DownwardFromDueLine ==
  block.found =>
    LET lines == VisitedLines
        due == DueLineIndex(lines)
        blk == SplitLines(block.text)
    IN  /\ due + Len(blk) - 1 <= ParagraphBottom(lines, due)
        /\ \A i \in 1..Len(blk) : blk[i] \in Forms(lines[due + i - 1])

\* a block from a due line that has a non-blank line right above it
C16_Witness ==
  /\ block.found
  /\ ParagraphTop(VisitedLines, DueLine) < DueLine

\* C17: a block is the due line followed by the non-blank lines after it, up
\* to the next blank line or to 12 lines in total; it has no blank line.
C17_DueLineAndFollowing ==
  block.found =>
    LET lines == VisitedLines
        due == DueLineIndex(lines)
        bottom == ParagraphBottom(lines, due)
        blk == SplitLines(block.text)
        clean(l) == IF version = "v1" THEN cleanupSuperscripts(l) ELSE l
    IN  /\ Len(blk) <= 12
        /\ \A i \in 1..Len(blk) : trim(blk[i]) # ""
        /\ blk[1] = clean(trim(lines[due]))
        /\ \A i \in 2..Len(blk) : blk[i] = clean(trimEnd(lines[due + i - 1]))
        /\ version = "v1" => Len(blk) = Min({bottom - due + 1, 12})

\* a paragraph of more than 12 lines gives a block of 12
C17_Witness ==
  /\ version = "v1" /\ block.found
  /\ ParagraphBottom(VisitedLines, DueLine) - DueLine + 1 > 12
  /\ Len(SplitLines(block.text)) = 12

(* ------------------------------ analytics ------------------------------ *)

\* t ends with w
EndsWith(t, w) == Len(w) <= Len(t) /\ Sub(t, Len(t) - Len(w) + 1, Len(t)) = w

\* C18: the analytics sink is called at most once for a request; its label is
\* EBO_ESSAY_ASSISTANT only for a redirect, DETERMINISTIC_DUE only for a
\* deterministic answer, MODEL or GENERAL_ASSISTANT only for a generative
\* answer; the responseText sent is the answer text returned to the caller (the
\* body, up to the status comment where the program appends one).
C18_AnalyticsLabelAndText ==
  /\ Cardinality(CallsTo("qualtrics")) <= 1
  /\ \A i \in CallsTo("qualtrics") :
       LET c == calls[i]
           rest == Sub(response.body, Len(c.responseText) + 1, Len(response.body))
       IN  /\ c.routedTo \in {"EBO_ESSAY_ASSISTANT", "DETERMINISTIC_DUE", "MODEL",
                               "GENERAL_ASSISTANT"}
           /\ c.routedTo = "EBO_ESSAY_ASSISTANT" <=>
                 (route = "Redirect" /\ CallsTo("readFile") = {} /\ CallsTo("openai") = {})
           /\ c.routedTo = "DETERMINISTIC_DUE" <=> (det.found /\ CallsTo("openai") = {})
           /\ c.routedTo \in {"MODEL", "GENERAL_ASSISTANT"} <=> CallsTo("openai") # {}
           /\ c.routedTo = "EBO_ESSAY_ASSISTANT" => Contains(c.responseText, EBO_ESSAY_LINK)
           /\ c.routedTo = "DETERMINISTIC_DUE" => StartsWith(c.responseText, det.text)
           /\ c.routedTo \in {"MODEL", "GENERAL_ASSISTANT"} =>
                 StartsWith(c.responseText, baseResponse)
           /\ c.queryText = query
           /\ response.status = 200
           /\ StartsWith(response.body, c.responseText)
           /\ \/ rest = ""
              \/ StartsWith(rest, "\n<!-- Qualtrics ") /\ EndsWith(rest, " -->")

\* the sink has been called with the label of a deterministic answer
C18_Witness ==
  /\ pc = "done"
  /\ \E i \in CallsTo("qualtrics") : calls[i].routedTo = "DETERMINISTIC_DUE"
  /\ det.found

====
